---- MODULE Spec2Model ----
(***************************************************************************)
(* Token lifecycle of jwt-auth / next-key: the AuthServer orchestrator     *)
(* with the AccessToken / RefreshToken strategies of the test suites, the  *)
(* Express adapter (ExpressAuth) and the browser client (AuthClient).      *)
(*                                                                         *)
(* Time.  Date.now() is a millisecond count that does not fit TLC's 32-bit *)
(* integers once ONE_MONTH is added, so a clock reading is the pair        *)
(* [s |-> whole seconds since the epoch, ms |-> 0..999].                   *)
(*                                                                         *)
(* Values.  JavaScript's undefined / null / '' are the records and strings *)
(* below; a JWT is the record [kind, alg, claims, sig], its signature the  *)
(* (collision-free) record Hmac(secret, alg, claims).                      *)
(***************************************************************************)
EXTENDS Integers, Sequences, FiniteSets, TLC

\* ------------------------------------------------------------ bounds
MaxTicks == 3
MaxHandlerTicks == 2
MaxCreates == 2
MaxMinted == 1
MaxCallers == 2
MaxHandlers == 2
MaxRequests == 2
MaxFetches == 3
MaxLogouts == 3
MaxScopeLen == 2

\* ------------------------------------------------- program constants
ACCESS_TOKEN_COOKIE == "abc"
ACCESS_TOKEN_SECRET == "password"
REFRESH_TOKEN_COOKIE == "aei"
RT_COOKIE == "r_t"
\* ONE_MONTH (1000 * 60 * 60 * 24 * 30 ms), held in seconds
ONE_MONTH == 60 * 60 * 24 * 30
\* expiresIn: '20m', in seconds
ExpiresIn == 20 * 60
\* clockTolerance, in seconds
ClockTolerance == 80
\* the claims of the suites' expiredToken literal
ExpiredIat == 1518141234
ExpiredExp == 1518142434

\* --------------------------------------------------- JavaScript values
Undefined == "<undefined>"
Null == [kind |-> "null"]
UndefinedRec == [kind |-> "undefined"]
NoToken == [kind |-> "none"]
EmptyToken == [kind |-> "empty"]
EmptyStore == [k \in {} |-> UndefinedRec]

Field(r, f) == IF f \in DOMAIN r THEN r[f] ELSE Undefined
Truthy(r, f) == IF f \in DOMAIN r THEN r[f] ELSE FALSE
Ok(v) == [ok |-> TRUE, val |-> v]
Err(name) == [ok |-> FALSE, val |-> [kind |-> "error", name |-> name]]

\* Whether a token value is falsy ('' / undefined / null)
Falsy(t) == t.kind \in {"none", "empty", "null"}

\* ------------------------------------------------------------- clock
Pad3(n) == IF n < 10 THEN "00" \o ToString(n)
           ELSE IF n < 100 THEN "0" \o ToString(n) ELSE ToString(n)

\* Date.now().toString()
Date_now_toString(t) == ToString(t.s) \o Pad3(t.ms)

\* new Date(Date.now() + ms-duration), the duration given in seconds
Date_plus(t, seconds) == [s |-> t.s + seconds, ms |-> t.ms]

AddTime(t, d) == [s |-> t.s + d.s + ((t.ms + d.ms) \div 1000),
                  ms |-> (t.ms + d.ms) % 1000]

\* Representative amounts of time between two steps: one millisecond, one
\* second, one second short of the access token's window, one month.
Millisecond == [s |-> 0, ms |-> 1]
Second == [s |-> 1, ms |-> 0]
AlmostWindow == [s |-> ExpiresIn + ClockTolerance - 1, ms |-> 0]
Month == [s |-> ONE_MONTH, ms |-> 0]
TickSteps == {Millisecond, Second, AlmostWindow, Month}

\* ------------------------------------------------------- scope codec
\* A compact scope is held as its sequence of characters, so that decoding has
\* to split it; Str gives the string that goes into a payload.
RECURSIVE Str(_)
Str(chars) == IF chars = <<>> THEN "" ELSE Head(chars) \o Str(Tail(chars))

\* new AuthScope({admin: 'a'}), and a registry with a second resource
Registry == [admin |-> "a"]
Registries == {Registry, [admin |-> "a", user |-> "u"]}
ResourceOrder == <<"admin", "user">>
ActionOrder == <<"read", "write">>
ActionCode == [read |-> "r", write |-> "w"]
Grant(res, act) == [resource |-> res, action |-> act]

\* The ':'-prefixed codes of the actions granted on res, in canonical order
RECURSIVE ActionCodes(_, _, _)
ActionCodes(grants, res, i) ==
  IF i > Len(ActionOrder) THEN <<>>
  ELSE (IF Grant(res, ActionOrder[i]) \in grants
        THEN <<":", ActionCode[ActionOrder[i]]>> ELSE <<>>)
       \o ActionCodes(grants, res, i + 1)

\* One segment <code>:<action>... per resource that has a grant
RECURSIVE Segments(_, _, _)
Segments(reg, grants, i) ==
  IF i > Len(ResourceOrder) THEN <<>>
  ELSE LET res == ResourceOrder[i]
       IN  (IF \E g \in grants : g.resource = res
            THEN <<<<reg[res]>> \o ActionCodes(grants, res, 1)>> ELSE <<>>)
           \o Segments(reg, grants, i + 1)

RECURSIVE JoinWith(_, _)
JoinWith(segs, sep) ==
  IF segs = <<>> THEN <<>>
  ELSE IF Len(segs) = 1 THEN segs[1]
  ELSE segs[1] \o <<sep>> \o JoinWith(Tail(segs), sep)

\* Mutant of encode: joins the resource segments with the action separator.
AuthScope_encode_OneSeparator(reg, grants) ==
  IF \E g \in grants : g.resource \notin DOMAIN reg THEN Err("UnknownResource")
  ELSE Ok(JoinWith(Segments(reg, grants, 1), ":"))

\* encode: the compact form of a set of grants under a registry
AuthScope_encode(reg, grants) ==
  IF \E g \in grants : g.resource \notin DOMAIN reg THEN Err("UnknownResource")
  ELSE Ok(JoinWith(Segments(reg, grants, 1), ","))

\* chars.split(sep)
RECURSIVE Split(_, _)
Split(chars, sep) ==
  IF chars = <<>> THEN <<<<>>>>
  ELSE LET rest == Split(Tail(chars), sep)
       IN  IF Head(chars) = sep THEN <<<<>>>> \o rest
           ELSE <<<<Head(chars)>> \o rest[1]>> \o Tail(rest)

\* One segment: the resource of its first token, the actions of the others
DecodeSegment(reg, seg) ==
  LET tokens == Split(seg, ":")
      resources == {res \in DOMAIN reg : <<reg[res]>> = tokens[1]}
      actions(i) == {act \in DOMAIN ActionCode : <<ActionCode[act]>> = tokens[i]}
  IN  IF resources = {} THEN Err("UnknownResource")
      ELSE IF \E i \in 2 .. Len(tokens) : actions(i) = {} THEN Err("UnknownAction")
      ELSE Ok({Grant(CHOOSE res \in resources : TRUE, CHOOSE act \in actions(i) : TRUE) :
                 i \in 2 .. Len(tokens)})

\* decode: the set of grants of a compact form
AuthScope_decode(reg, chars) ==
  IF chars = <<>> THEN Ok({})
  ELSE LET segs == Split(chars, ",")
           parts == [i \in DOMAIN segs |-> DecodeSegment(reg, segs[i])]
           failed == {i \in DOMAIN segs : ~parts[i].ok}
       IN  IF failed # {}
           THEN parts[CHOOSE i \in failed : \A j \in failed : i <= j]
           ELSE Ok(UNION {parts[i].val : i \in DOMAIN segs})

\* AuthScope.create: the compact string of a set of grants
AuthScope_create(grants) == Str(AuthScope_encode(Registry, grants).val)

\* ----------------------------------------------------- payload codec
\* new AuthPayload({uId: 'id', cId: 'companyId', scope: 'scope'})
AuthPayload_create(p) ==
  [uId |-> Field(p, "id"), cId |-> Field(p, "companyId"), scope |-> Field(p, "scope")]

AuthPayload_parse(c) ==
  [id |-> Field(c, "uId"), companyId |-> Field(c, "cId"), scope |-> Field(c, "scope")]

\* ------------------------------------------- access token strategy
AccessToken_buildPayload(data) ==
  [id |-> Field(data, "id"),
   companyId |-> Field(data, "companyId"),
   scope |-> IF Truthy(data, "admin")
             THEN AuthScope_create({Grant("admin", "read"), Grant("admin", "write")})
             ELSE ""]

Hmac(secret, alg, claims) == [key |-> secret, alg |-> alg, msg |-> claims]

\* jwt.sign(payload, secret, {expiresIn})
jwt_sign(payload, secret, expiresIn, t) ==
  LET claims == [uId |-> payload.uId, cId |-> payload.cId, scope |-> payload.scope,
                 iat |-> t.s, exp |-> t.s + expiresIn]
  IN  [kind |-> "jwt", alg |-> "HS256", claims |-> claims,
       sig |-> Hmac(secret, "HS256", claims)]

\* jwt.verify(token, secret, {algorithms, clockTolerance})
jwt_verify(token, secret, algorithms, clockTolerance, t) ==
  IF token.kind # "jwt" THEN Err("JsonWebTokenError")
  ELSE IF token.alg \notin algorithms THEN Err("JsonWebTokenError")
  ELSE IF token.sig # Hmac(secret, token.alg, token.claims) THEN Err("JsonWebTokenError")
  ELSE IF t.s >= token.claims.exp + clockTolerance THEN Err("TokenExpiredError")
  ELSE Ok(token.claims)

\* Mutant of AccessToken.create: signs the payload without its scope.
AccessToken_create_DropScope(payload, t) ==
  jwt_sign([payload EXCEPT !.scope = ""], ACCESS_TOKEN_SECRET, ExpiresIn, t)

AccessToken_create(payload, t) == jwt_sign(payload, ACCESS_TOKEN_SECRET, ExpiresIn, t)

\* Mutants of AccessToken.verify: no clock tolerance; no expiry check at all.
AccessToken_verify_NoTolerance(token, t) ==
  jwt_verify(token, ACCESS_TOKEN_SECRET, {"HS256"}, 0, t)

AccessToken_verify_NoExpiry(token, t) ==
  IF token.kind # "jwt" THEN Err("JsonWebTokenError")
  ELSE IF token.sig # Hmac(ACCESS_TOKEN_SECRET, token.alg, token.claims)
  THEN Err("JsonWebTokenError")
  ELSE Ok(token.claims)

\* Mutant of AccessToken.verify: rejects an expired token only at the second its
\* window closes.
AccessToken_verify_OnlyAtDeadline(token, t) ==
  IF token.kind # "jwt" THEN Err("JsonWebTokenError")
  ELSE IF token.sig # Hmac(ACCESS_TOKEN_SECRET, token.alg, token.claims)
  THEN Err("JsonWebTokenError")
  ELSE IF t.s = token.claims.exp + ClockTolerance THEN Err("TokenExpiredError")
  ELSE Ok(token.claims)

AccessToken_verify(token, t) ==
  jwt_verify(token, ACCESS_TOKEN_SECRET, {"HS256"}, ClockTolerance, t)

\* The suites' expiredToken, 'x' + expiredToken, and altered tokens
ExpiredToken ==
  LET claims == [uId |-> "user_123", cId |-> "company_123", scope |-> "a:r:w",
                 iat |-> ExpiredIat, exp |-> ExpiredExp]
  IN  [kind |-> "jwt", alg |-> "HS256", claims |-> claims,
       sig |-> Hmac(ACCESS_TOKEN_SECRET, "HS256", claims)]
MalformedToken == [kind |-> "malformed"]
Tamper(t) == [t EXCEPT !.claims.uId = "user_000"]
Forge(t) == [t EXCEPT !.sig = Hmac("guess", t.alg, t.claims)]

\* ------------------------------------------ refresh token strategy
RefreshToken_getExpDate(t) == Date_plus(t, ONE_MONTH)

\* refreshTokens.set(Date.now().toString(), {userId, expireAt}); return id
RefreshToken_create(store, data, t) ==
  LET id == Date_now_toString(t)
  IN  [id |-> id,
       store |-> (id :> [userId |-> Field(data, "id"),
                         expireAt |-> RefreshToken_getExpDate(t)]) @@ store]

\* Mutant of RefreshToken.remove: reports the record and leaves it in the Map.
RefreshToken_remove_KeepsRecord(store, id) ==
  [ret |-> id \in DOMAIN store, store |-> store]

\* refreshTokens.delete(refreshToken)
RefreshToken_remove(store, id) ==
  [ret |-> id \in DOMAIN store,
   store |-> [k \in DOMAIN store \ {id} |-> store[k]]]

\* Mutant of RefreshToken.getPayload: looks up first, resets only what it found.
RefreshToken_getPayload_ResetIfFound(store, id) ==
  [trace |-> IF id \in DOMAIN store THEN <<"get", "reset">> ELSE <<"get">>,
   ret |-> IF id \in DOMAIN store THEN store[id] ELSE UndefinedRec]

\* reset(); return refreshTokens.get(refreshToken)
RefreshToken_getPayload(store, id) ==
  [trace |-> <<"reset", "get">>,
   ret |-> IF id \in DOMAIN store THEN store[id] ELSE UndefinedRec]

\* ---------------------------------------------------- orchestrator
AuthServer_createAccessToken(data, t) ==
  LET payload == AccessToken_buildPayload(data)
  IN  [accessToken |-> AccessToken_create(AuthPayload_create(payload), t),
       payload |-> payload]

AuthServer_createRefreshToken(store, data, t) == RefreshToken_create(store, data, t)

AuthServer_verify(token, t) ==
  LET r == AccessToken_verify(token, t)
  IN  IF r.ok THEN Ok(AuthPayload_parse(r.val)) ELSE r

AuthServer_decode(token, t) ==
  IF Falsy(token) THEN Null
  ELSE LET r == AuthServer_verify(token, t)
       IN  IF r.ok THEN r.val ELSE Null

AuthServer_getPayload(store, id) == RefreshToken_getPayload(store, id)

AuthServer_removeRefreshRoken(store, id) ==
  IF id = "" THEN [ret |-> FALSE, store |-> store]
  ELSE RefreshToken_remove(store, id)

\* Mutant of createTokens: hands out the access token although the refresh
\* token was not created.
AuthServer_createTokens_Orphan(rt, at) ==
  [ok |-> TRUE, refreshToken |-> rt.id,
   accessToken |-> at.accessToken, payload |-> at.payload]

\* createTokens: what the caller gets once both creations have settled, rt the
\* settled createRefreshToken and at the result of createAccessToken.
AuthServer_createTokens(rt, at) ==
  IF ~rt.ok THEN [ok |-> FALSE, error |-> "StoreUnavailable"]
  ELSE [ok |-> TRUE, refreshToken |-> rt.id,
        accessToken |-> at.accessToken, payload |-> at.payload]

\* A request source: the Authorization header as its two space-separated
\* parts (NoHeader: absent or ''), and the access-token cookie.
NoHeader == [scheme |-> "", cred |-> NoToken]
Header(scheme, cred) == [scheme |-> scheme, cred |-> cred]

AuthServer_getAccessToken(source) ==
  IF source.authorization # NoHeader
     /\ source.authorization.scheme = "Bearer"
     /\ ~Falsy(source.authorization.cred)
  THEN source.authorization.cred
  ELSE IF ~Falsy(source.cookie) THEN source.cookie
  ELSE Null

\* ------------------------------------------------------------- state
VARIABLES
  now,            \* the clock reading Date.now() returns
  ticks,          \* how often the clock has advanced
  refreshTokens,  \* the suites' Map of refresh records, by identifier
  live,           \* identifiers issued and not since handed to a remove
  persisted,      \* identifiers the Map has held at some time
  creates,        \* refresh-token creations so far
  issues,         \* what each successful creation returned and stored, in order
  removed,        \* identifiers for which a remove has returned true
  minted,         \* results of createAccessToken so far
  last,           \* the last completed orchestrator call and its result
  calls,          \* createTokens calls, by caller
  handlers,       \* Express handlers, by connection
  cookie,         \* the browser's access-token cookie ('' when absent)
  valid,          \* the tokens the client's decode option accepts
  clientATFetch,  \* AuthClient's slot: 0 (undefined) or a promise
  promises,       \* the createAccessToken requests the client has started
  fetches,        \* fetchClientToken calls and what each returned
  logouts         \* AuthClient.logout calls and the state of each one's request

clockVars == <<now, ticks>>
storeVars == <<refreshTokens, live, persisted, creates, issues, removed>>
clientVars == <<cookie, valid, clientATFetch, promises, fetches, logouts>>
vars == <<now, ticks, refreshTokens, live, persisted, creates, issues, removed, minted, last,
          calls, handlers, cookie, valid, clientATFetch, promises, fetches, logouts>>

Callers == 1 .. MaxCallers
Handlers == 1 .. MaxHandlers
Idle == [pc |-> "idle"]
\* Access tokens as the browser sees them: opaque strings
ClientTokens == {"at1", "at2"}

\* Inputs of the create operations: the suites' userPayload (an admin) and a
\* second subject without the admin flag.
UserPayloads ==
  { [id |-> "user_123", companyId |-> "company_123", admin |-> TRUE],
    [id |-> "user_456", companyId |-> "company_123", admin |-> FALSE] }

Init ==
  /\ now = [s |-> ExpiredExp + ClockTolerance, ms |-> 0]
  /\ ticks = 0
  /\ refreshTokens = EmptyStore
  /\ live = {}
  /\ persisted = {}
  /\ creates = 0
  /\ issues = <<>>
  /\ removed = {}
  /\ minted = {}
  /\ last = [op |-> "none"]
  /\ calls = [c \in Callers |-> Idle]
  /\ handlers = [h \in Handlers |-> Idle]
  /\ cookie = ""
  /\ valid = ClientTokens
  /\ clientATFetch = 0
  /\ promises = <<>>
  /\ fetches = <<>>
  /\ logouts = <<>>

Tick(d) ==
  /\ ticks < MaxTicks
  /\ now' = AddTime(now, d)
  /\ ticks' = ticks + 1
  /\ UNCHANGED <<storeVars, minted, last, calls, handlers, clientVars>>

\* ------------------------------------------------- Express adapter
\* Mutant of ExpressAuth.getAccessToken: falls back to the access-token cookie.
ExpressAuth_getAccessToken_WithCookie(req) ==
  IF req.authorization # NoHeader /\ ~Falsy(req.authorization.cred)
  THEN req.authorization.cred
  ELSE IF ~Falsy(req.cookie) THEN req.cookie
  ELSE Null

\* ExpressAuth.getAccessToken: authorization.split(' ')[1] || null
ExpressAuth_getAccessToken(req) ==
  IF req.authorization # NoHeader /\ ~Falsy(req.authorization.cred)
  THEN req.authorization.cred
  ELSE Null

\* ExpressAuth.authorize: req.user = accessToken ? this.verify(accessToken) : null;
\* next().  A verify that throws leaves the handler before next() is called.
ExpressAuth_authorize(req, t) ==
  LET accessToken == ExpressAuth_getAccessToken(req)
  IN  IF accessToken = Null
      THEN [threw |-> FALSE, user |-> Null, nextCalls |-> 1]
      ELSE LET v == AuthServer_verify(accessToken, t)
           IN  IF v.ok
               THEN [threw |-> FALSE, user |-> v.val, nextCalls |-> 1]
               ELSE [threw |-> TRUE, user |-> UndefinedRec, nextCalls |-> 0]

\* ExpressAuth.getRefreshToken: signedCookies[cookie] || cookies[cookie] || null
\* ('' stands for an absent cookie and for null)
ExpressAuth_getRefreshToken(req) ==
  IF req.signedCookie # "" THEN req.signedCookie
  ELSE IF req.cookie # "" THEN req.cookie
  ELSE ""

\* ExpressAuth.setRefreshToken: res.cookie(cookie, refreshToken, {httpOnly, path,
\* ...cookieOptions}); the strategy of the suites sets no cookieOptions.
ExpressAuth_setRefreshToken(res, refreshToken) ==
  Append(res, [name |-> IF REFRESH_TOKEN_COOKIE # "" THEN REFRESH_TOKEN_COOKIE
                        ELSE RT_COOKIE,
               value |-> refreshToken,
               httpOnly |-> TRUE,
               path |-> "/",
               maxAge |-> Undefined,
               expires |-> IF refreshToken = "" THEN "new Date(1)" ELSE Undefined])

\* Mutant of refreshAccessToken: signs an access token whatever the lookup gave.
ExpressAuth_refreshAccessToken_AlwaysIssues(payload, t) ==
  [accessToken |-> AuthServer_createAccessToken(payload, t).accessToken]

\* ExpressAuth.refreshAccessToken after its await: if (!payload) return;
\* const {accessToken} = this.createAccessToken(payload); return {accessToken}
ExpressAuth_refreshAccessToken(payload, t) ==
  IF payload = UndefinedRec THEN UndefinedRec
  ELSE [accessToken |-> AuthServer_createAccessToken(payload, t).accessToken]

\* Mutant of logout: goes on to the removal and the cookie without a refresh token.
ExpressAuth_logout_WithoutCookie(store, req) ==
  LET refreshToken == ExpressAuth_getRefreshToken(req)
      r == AuthServer_removeRefreshRoken(store, refreshToken)
  IN  [pc |-> "awaiting", refreshToken |-> refreshToken, store |-> r.store,
       log |-> <<"remove">>, removed |-> r.ret]

\* ExpressAuth.logout up to its await: getRefreshToken; without a refresh token
\* return {done: false}; else call removeRefreshRoken, which deletes from the
\* Map before the handler is suspended.
ExpressAuth_logout(store, req) ==
  LET refreshToken == ExpressAuth_getRefreshToken(req)
      r == AuthServer_removeRefreshRoken(store, refreshToken)
  IN  IF refreshToken = ""
      THEN [pc |-> "done", refreshToken |-> "", store |-> store,
            log |-> <<>>, removed |-> FALSE]
      ELSE [pc |-> "awaiting", refreshToken |-> refreshToken, store |-> r.store,
            log |-> <<"remove">>, removed |-> r.ret]

\* ExpressAuth.logout after its await: this.setRefreshToken(res, '');
\* return {done: true}
ExpressAuth_logout_resume(res, refreshToken) ==
  [res |-> ExpressAuth_setRefreshToken(res, ""), result |-> [done |-> TRUE]]

\* The calls a getPayload made, in order, with reset bound to
\* () => this.setRefreshToken(res, refreshToken)
RECURSIVE RunResets(_, _, _)
RunResets(trace, res, refreshToken) ==
  IF trace = <<>> THEN res
  ELSE RunResets(Tail(trace),
                 IF Head(trace) = "reset"
                 THEN ExpressAuth_setRefreshToken(res, refreshToken) ELSE res,
                 refreshToken)

\* ----------------------------------------- inputs of the token actions
MintedTokens == {m.accessToken : m \in minted}

\* Tokens a caller may hand to verify / decode
TokenInputs ==
  {EmptyToken, MalformedToken, ExpiredToken, Tamper(ExpiredToken)}
  \cup MintedTokens
  \cup {Tamper(t) : t \in MintedTokens}
  \cup {Forge(t) : t \in MintedTokens}

\* Authorization headers and access-token cookies of a request
HeaderInputs ==
  {NoHeader, Header("Bearer", NoToken), Header("Bearer", ExpiredToken)}
  \cup {Header("Bearer", t) : t \in MintedTokens}
  \cup {Header("Basic", t) : t \in MintedTokens}
CookieInputs == {NoToken, MalformedToken} \cup MintedTokens
SourceInputs == [authorization : HeaderInputs, cookie : CookieInputs]

\* ------------------------------------------------ access token actions
CreateAccessToken(data) ==
  /\ Cardinality(minted) < MaxMinted
  /\ LET r == AuthServer_createAccessToken(data, now)
     IN  /\ minted' = minted \cup {r}
         /\ last' = [op |-> "createAccessToken", data |-> data, at |-> now, ret |-> r]
  /\ UNCHANGED <<clockVars, storeVars, calls, handlers, clientVars>>

Verify(token) ==
  /\ last' = [op |-> "verify", token |-> token, at |-> now,
              ret |-> AuthServer_verify(token, now)]
  /\ UNCHANGED <<clockVars, storeVars, minted, calls, handlers, clientVars>>

Decode(token) ==
  /\ last' = [op |-> "decode", token |-> token, at |-> now,
              ret |-> AuthServer_decode(token, now)]
  /\ UNCHANGED <<clockVars, storeVars, minted, calls, handlers, clientVars>>

GetAccessToken(source) ==
  /\ last' = [op |-> "getAccessToken", source |-> source,
              ret |-> AuthServer_getAccessToken(source)]
  /\ UNCHANGED <<clockVars, storeVars, minted, calls, handlers, clientVars>>

ExpressGetAccessToken(req) ==
  /\ last' = [op |-> "ExpressAuth.getAccessToken", source |-> req,
              ret |-> ExpressAuth_getAccessToken(req)]
  /\ UNCHANGED <<clockVars, storeVars, minted, calls, handlers, clientVars>>

Authorize(req) ==
  /\ last' = [op |-> "authorize", req |-> req, at |-> now,
              ret |-> ExpressAuth_authorize(req, now)]
  /\ UNCHANGED <<clockVars, storeVars, minted, calls, handlers, clientVars>>

NextAccess ==
  \/ \E d \in {Second, AlmostWindow} : Tick(d)
  \/ \E data \in UserPayloads : CreateAccessToken(data)
  \/ \E token \in TokenInputs : Verify(token)
  \/ \E token \in TokenInputs : Decode(token)
  \/ \E source \in SourceInputs : GetAccessToken(source)
  \/ \E req \in SourceInputs : ExpressGetAccessToken(req)
  \/ \E req \in SourceInputs : Authorize(req)

SpecAccess == Init /\ [][NextAccess]_vars

\* ----------------------------------------------- refresh token actions
\* Identifiers a caller may present: every one the store has held, one it never
\* held, and the empty string.
IdInputs == persisted \cup {"", "xxx"}

CreateRefreshToken(data) ==
  /\ creates < MaxCreates
  /\ LET r == AuthServer_createRefreshToken(refreshTokens, data, now)
     IN  /\ refreshTokens' = r.store
         /\ live' = live \cup {r.id}
         /\ persisted' = persisted \cup DOMAIN r.store
         /\ issues' = Append(issues, [id |-> r.id, record |-> r.store[r.id]])
         /\ last' = [op |-> "createRefreshToken", data |-> data, at |-> now, ret |-> r.id]
  /\ creates' = creates + 1
  /\ UNCHANGED <<clockVars, removed, minted, calls, handlers, clientVars>>

GetPayload(id) ==
  /\ LET g == AuthServer_getPayload(refreshTokens, id)
     IN  last' = [op |-> "getPayload", id |-> id, trace |-> g.trace, ret |-> g.ret]
  /\ UNCHANGED <<clockVars, storeVars, minted, calls, handlers, clientVars>>

RemoveRefreshToken(id) ==
  /\ LET r == AuthServer_removeRefreshRoken(refreshTokens, id)
     IN  /\ refreshTokens' = r.store
         /\ removed' = IF r.ret THEN removed \cup {id} ELSE removed
         /\ last' = [op |-> "removeRefreshToken", id |-> id, ret |-> r.ret]
  /\ live' = live \ {id}
  /\ UNCHANGED <<clockVars, persisted, creates, issues, minted, calls, handlers, clientVars>>

\* createTokens attempts both creations and awaits them.  The refresh strategy's
\* create runs up to its return when it is called; the access token is signed
\* before or after the await (the order is not fixed).  storeOk = FALSE is a
\* refresh strategy whose create rejects (StoreUnavailable).
NotYet == [kind |-> "pending"]

CreateTokensStart(c, data, order, storeOk) ==
  /\ calls[c].pc \in {"idle", "done"}
  /\ \A k \in 1 .. c - 1 : calls[k].pc # "idle"
  /\ creates < MaxCreates
  /\ LET r == AuthServer_createRefreshToken(refreshTokens, data, now)
     IN  /\ refreshTokens' = IF storeOk THEN r.store ELSE refreshTokens
         /\ live' = IF storeOk THEN live \cup {r.id} ELSE live
         /\ persisted' = persisted \cup DOMAIN refreshTokens'
         /\ issues' = IF storeOk
                      THEN Append(issues, [id |-> r.id, record |-> r.store[r.id]])
                      ELSE issues
         /\ calls' = [calls EXCEPT ![c] =
              [pc |-> "awaiting", data |-> data, order |-> order,
               rt |-> IF storeOk THEN [ok |-> TRUE, id |-> r.id]
                      ELSE [ok |-> FALSE, id |-> ""],
               at |-> IF order = "access-first"
                      THEN AuthServer_createAccessToken(data, now) ELSE NotYet]]
  /\ creates' = creates + 1
  /\ UNCHANGED <<clockVars, removed, minted, last, handlers, clientVars>>

CreateTokensFinish(c) ==
  /\ calls[c].pc = "awaiting"
  /\ LET at == IF calls[c].at = NotYet
               THEN AuthServer_createAccessToken(calls[c].data, now)
               ELSE calls[c].at
     IN  calls' = [calls EXCEPT ![c] =
           [pc |-> "done", data |-> calls[c].data, order |-> calls[c].order,
            rt |-> calls[c].rt,
            result |-> AuthServer_createTokens(calls[c].rt, at)]]
  /\ UNCHANGED <<clockVars, storeVars, minted, last, handlers, clientVars>>

NextStore ==
  \/ \E d \in {Millisecond, Month} : Tick(d)
  \/ \E data \in UserPayloads : CreateRefreshToken(data)
  \/ \E id \in IdInputs : GetPayload(id)
  \/ \E id \in IdInputs : RemoveRefreshToken(id)

SpecStore == Init /\ [][NextStore]_vars

NextTokens ==
  \/ \E d \in {Millisecond, AlmostWindow} : Tick(d)
  \/ \E c \in Callers, data \in UserPayloads,
        order \in {"access-first", "refresh-first"}, storeOk \in BOOLEAN :
       CreateTokensStart(c, data, order, storeOk)
  \/ \E c \in Callers : CreateTokensFinish(c)

SpecTokens == Init /\ [][NextTokens]_vars

\* ------------------------------------------------------ Express handlers
\* Refresh-token cookies of a request, signed and unsigned
RefreshCookieInputs ==
  [signedCookie : {""} \cup persisted, cookie : {"", "xxx"} \cup persisted]

\* refreshAccessToken up to its await: getRefreshToken, then getPayload, whose
\* lookup reads the Map before the handler is suspended.
RefreshStart(h, req) ==
  /\ handlers[h].pc = "idle"
  /\ \A k \in 1 .. h - 1 : handlers[k].pc # "idle"
  /\ LET refreshToken == ExpressAuth_getRefreshToken(req)
         g == AuthServer_getPayload(refreshTokens, refreshToken)
     IN  handlers' = [handlers EXCEPT ![h] =
           IF refreshToken = ""
           THEN [pc |-> "done", kind |-> "refresh", refreshToken |-> "",
                 found |-> FALSE,
                 log |-> <<>>, res |-> <<>>, payload |-> UndefinedRec,
                 result |-> UndefinedRec]
           ELSE [pc |-> "awaiting", kind |-> "refresh", refreshToken |-> refreshToken,
                 found |-> refreshToken \in DOMAIN refreshTokens,
                 log |-> g.trace, res |-> RunResets(g.trace, <<>>, refreshToken),
                 payload |-> g.ret]]
  /\ UNCHANGED <<clockVars, storeVars, minted, last, calls, clientVars>>

\* refreshAccessToken after its await
RefreshResume(h) ==
  /\ handlers[h].pc = "awaiting"
  /\ handlers[h].kind = "refresh"
  /\ handlers' = [handlers EXCEPT ![h] =
       [pc |-> "done", kind |-> "refresh", refreshToken |-> handlers[h].refreshToken,
        found |-> handlers[h].found,
        log |-> handlers[h].log, res |-> handlers[h].res,
        payload |-> handlers[h].payload,
        result |-> ExpressAuth_refreshAccessToken(handlers[h].payload, now)]]
  /\ UNCHANGED <<clockVars, storeVars, minted, last, calls, clientVars>>

NextExpress ==
  \/ \E d \in {Millisecond, Month} : ticks < MaxHandlerTicks /\ Tick(d)
  \/ \E data \in UserPayloads : CreateRefreshToken(data)
  \/ \E h \in Handlers, req \in RefreshCookieInputs : RefreshStart(h, req)
  \/ \E h \in Handlers : RefreshResume(h)

SpecExpress == Init /\ [][NextExpress]_vars

\* logout up to its await (or to its return, without a refresh token)
LogoutStart(h, req) ==
  /\ handlers[h].pc = "idle"
  /\ \A k \in 1 .. h - 1 : handlers[k].pc # "idle"
  /\ LET r == ExpressAuth_logout(refreshTokens, req)
     IN  /\ refreshTokens' = r.store
         /\ live' = IF r.log = <<>> THEN live ELSE live \ {r.refreshToken}
         /\ removed' = IF r.removed THEN removed \cup {r.refreshToken} ELSE removed
         /\ handlers' = [handlers EXCEPT ![h] =
              [pc |-> r.pc, kind |-> "logout", refreshToken |-> r.refreshToken,
               log |-> r.log, res |-> <<>>, removed |-> r.removed,
               storeHas |-> r.refreshToken \in DOMAIN r.store,
               result |-> IF r.pc = "done" THEN [done |-> FALSE] ELSE UndefinedRec]]
  /\ UNCHANGED <<clockVars, persisted, creates, issues, minted, last, calls, clientVars>>

\* logout after its await; storeHas is whether the Map holds a record for the
\* refresh token when the handler returns
LogoutResume(h) ==
  /\ handlers[h].pc = "awaiting"
  /\ handlers[h].kind = "logout"
  /\ LET r == ExpressAuth_logout_resume(handlers[h].res, handlers[h].refreshToken)
     IN  handlers' = [handlers EXCEPT ![h] =
           [pc |-> "done", kind |-> "logout", refreshToken |-> handlers[h].refreshToken,
            log |-> Append(handlers[h].log, "setRefreshToken"), res |-> r.res,
            removed |-> handlers[h].removed,
            storeHas |-> handlers[h].refreshToken \in DOMAIN refreshTokens,
            result |-> r.result]]
  /\ UNCHANGED <<clockVars, storeVars, minted, last, calls, clientVars>>

NextLogout ==
  \/ Tick(Millisecond)
  \/ \E data \in UserPayloads : CreateRefreshToken(data)
  \/ \E h \in Handlers, req \in RefreshCookieInputs : LogoutStart(h, req)
  \/ \E h \in Handlers : LogoutResume(h)

SpecLogout == Init /\ [][NextLogout]_vars

\* refreshAccessToken and logout handlers of concurrent requests; a handler's
\* response goes to the client when the handler returns
NextSession ==
  \/ ticks < MaxHandlerTicks /\ Tick(Millisecond)
  \/ \E data \in UserPayloads : CreateRefreshToken(data)
  \/ \E h \in Handlers, req \in RefreshCookieInputs : RefreshStart(h, req)
  \/ \E h \in Handlers : RefreshResume(h)
  \/ \E h \in Handlers, req \in RefreshCookieInputs : LogoutStart(h, req)
  \/ \E h \in Handlers : LogoutResume(h)

SpecSession == Init /\ [][NextSession]_vars

\* ------------------------------------------------------- scope codec
\* Inputs of the codec: the sets of grants over the known resource and action
\* names, and the compact forms: every encoding and every short text.
AllGrants ==
  {Grant(ResourceOrder[i], ActionOrder[j]) :
     i \in DOMAIN ResourceOrder, j \in DOMAIN ActionOrder}
ScopeSets(reg) == SUBSET {g \in AllGrants : g.resource \in DOMAIN reg}
ScopeAlphabet == {"a", "u", "r", "w", ":", ","}
ScopeTexts ==
  UNION {[1 .. n -> ScopeAlphabet] : n \in 0 .. MaxScopeLen}
  \cup UNION {{AuthScope_encode(reg, grants).val : grants \in ScopeSets(reg)} :
               reg \in Registries}

ScopeEncode(reg, grants) ==
  /\ last' = [op |-> "scope.encode", registry |-> reg, grants |-> grants,
              ret |-> AuthScope_encode(reg, grants)]
  /\ UNCHANGED <<clockVars, storeVars, minted, calls, handlers, clientVars>>

ScopeDecode(reg, chars) ==
  /\ last' = [op |-> "scope.decode", registry |-> reg, scope |-> chars,
              ret |-> AuthScope_decode(reg, chars)]
  /\ UNCHANGED <<clockVars, storeVars, minted, calls, handlers, clientVars>>

NextScope ==
  \/ \E reg \in Registries, grants \in SUBSET AllGrants : ScopeEncode(reg, grants)
  \/ \E reg \in Registries, chars \in ScopeTexts : ScopeDecode(reg, chars)

SpecScope == Init /\ [][NextScope]_vars

\* --------------------------------------------------------- AuthClient
\* getAccessToken: Cookies.get(this.cookie) || null
AuthClient_getAccessToken(c) == c

\* decodeAccessToken: whether the decode option returns a payload for the token
AuthClient_decodeAccessToken(accessToken, accepted) ==
  accessToken # "" /\ accessToken \in accepted

\* verifyAccessToken: the token if it still decodes, else undefined ('')
AuthClient_verifyAccessToken(accessToken, accepted) ==
  IF accessToken # "" /\ AuthClient_decodeAccessToken(accessToken, accepted)
  THEN accessToken ELSE ""

\* setAccessToken: the cookie after the call
AuthClient_setAccessToken(c, accessToken) ==
  IF accessToken = "" THEN c ELSE accessToken

\* removeAccessToken: Cookies.remove(this.cookie); the cookie after the call
AuthClient_removeAccessToken(c) == ""

\* Mutant of fetchClientToken: asks for a new token also without a cookie.
AuthClient_fetchClientToken_WithoutCookie(c, accepted, slot, n) ==
  LET _accessToken == AuthClient_getAccessToken(c)
  IN  IF AuthClient_verifyAccessToken(_accessToken, accepted) # ""
      THEN [ret |-> [kind |-> "token", token |-> _accessToken],
            slot |-> slot, request |-> FALSE]
      ELSE IF slot # 0
      THEN [ret |-> [kind |-> "promise", pid |-> slot],
            slot |-> slot, request |-> FALSE]
      ELSE [ret |-> [kind |-> "promise", pid |-> n + 1],
            slot |-> n + 1, request |-> TRUE]

\* Mutant of fetchClientToken: never reuses the promise in the slot.
AuthClient_fetchClientToken_NoReuse(c, accepted, slot, n) ==
  LET _accessToken == AuthClient_getAccessToken(c)
  IN  IF _accessToken = ""
      THEN [ret |-> [kind |-> "undefined"], slot |-> slot, request |-> FALSE]
      ELSE IF AuthClient_verifyAccessToken(_accessToken, accepted) # ""
      THEN [ret |-> [kind |-> "token", token |-> _accessToken],
            slot |-> slot, request |-> FALSE]
      ELSE [ret |-> [kind |-> "promise", pid |-> n + 1],
            slot |-> n + 1, request |-> TRUE]

\* fetchClientToken, with n requests started so far: what it returns, the slot
\* after it, and whether it called fetch.createAccessToken.
AuthClient_fetchClientToken(c, accepted, slot, n) ==
  LET _accessToken == AuthClient_getAccessToken(c)
  IN  IF _accessToken = ""
      THEN [ret |-> [kind |-> "undefined"], slot |-> slot, request |-> FALSE]
      ELSE IF AuthClient_verifyAccessToken(_accessToken, accepted) # ""
      THEN [ret |-> [kind |-> "token", token |-> _accessToken],
            slot |-> slot, request |-> FALSE]
      ELSE IF slot # 0
      THEN [ret |-> [kind |-> "promise", pid |-> slot],
            slot |-> slot, request |-> FALSE]
      ELSE [ret |-> [kind |-> "promise", pid |-> n + 1],
            slot |-> n + 1, request |-> TRUE]

\* The .then callback of the request: clears the slot, stores the token
AuthClient_onFulfilled(c, slot, accessToken) ==
  [slot |-> 0, cookie |-> AuthClient_setAccessToken(c, accessToken)]

\* The request rejects: the chain has no rejection handler
AuthClient_onRejected(c, slot) ==
  [slot |-> slot, cookie |-> c]

\* Mutant of logout: removes the cookie without waiting for the server.
AuthClient_logout_RemovesFirst(c, hasWindow) ==
  [cookie |-> AuthClient_removeAccessToken(c), request |-> hasWindow]

\* logout up to its return: if (typeof window === 'undefined') return;
\* return this.fetch.logout(...).then(...).  The cookie after the call and
\* whether fetch.logout was called.
AuthClient_logout(c, hasWindow) ==
  [cookie |-> c, request |-> hasWindow]

\* The .then callback of the logout request: this.removeAccessToken()
AuthClient_logout_onFulfilled(c) == AuthClient_removeAccessToken(c)

\* The logout request rejects: the chain has no rejection handler
AuthClient_logout_onRejected(c) == c

PendingRequests == {p \in DOMAIN promises : promises[p].state = "pending"}

FetchClientToken ==
  /\ Len(fetches) < MaxFetches
  /\ LET r == AuthClient_fetchClientToken(cookie, valid, clientATFetch, Len(promises))
     IN  /\ r.request => Len(promises) < MaxRequests
         /\ clientATFetch' = r.slot
         /\ promises' = IF r.request
                        THEN Append(promises, [state |-> "pending", value |-> ""])
                        ELSE promises
         /\ fetches' = Append(fetches, [ret |-> r.ret, cookie |-> cookie,
                                        decodes |-> cookie \in valid,
                                        started |-> Len(promises),
                                        inFlight |-> PendingRequests])
  /\ UNCHANGED <<clockVars, storeVars, minted, last, calls, handlers, cookie, valid,
                 logouts>>

\* The server answers a request; '' is an answer without an accessToken
RequestFulfilled(p, accessToken) ==
  /\ p \in PendingRequests
  /\ LET r == AuthClient_onFulfilled(cookie, clientATFetch, accessToken)
     IN  /\ clientATFetch' = r.slot
         /\ cookie' = r.cookie
  /\ promises' = [promises EXCEPT ![p] = [state |-> "fulfilled", value |-> accessToken]]
  /\ UNCHANGED <<clockVars, storeVars, minted, last, calls, handlers, valid, fetches,
                 logouts>>

RequestRejected(p) ==
  /\ p \in PendingRequests
  /\ LET r == AuthClient_onRejected(cookie, clientATFetch)
     IN  /\ clientATFetch' = r.slot
         /\ cookie' = r.cookie
  /\ promises' = [promises EXCEPT ![p] = [state |-> "rejected", value |-> ""]]
  /\ UNCHANGED <<clockVars, storeVars, minted, last, calls, handlers, valid, fetches,
                 logouts>>

\* The application stores a token after a login (setAccessToken)
SetAccessToken(accessToken) ==
  /\ cookie' = AuthClient_setAccessToken(cookie, accessToken)
  /\ cookie' # cookie
  /\ UNCHANGED <<clockVars, storeVars, minted, last, calls, handlers,
                 valid, clientATFetch, promises, fetches, logouts>>

\* The application removes the cookie (removeAccessToken)
RemoveAccessToken ==
  /\ cookie # ""
  /\ cookie' = AuthClient_removeAccessToken(cookie)
  /\ UNCHANGED <<clockVars, storeVars, minted, last, calls, handlers,
                 valid, clientATFetch, promises, fetches, logouts>>

\* The application calls logout, in the browser or during server-side rendering
Logout(hasWindow) ==
  /\ Len(logouts) < MaxLogouts
  /\ LET r == AuthClient_logout(cookie, hasWindow)
     IN  /\ cookie' = r.cookie
         /\ logouts' = Append(logouts,
              [window |-> hasWindow,
               state |-> IF r.request THEN "pending" ELSE "no request"])
  /\ UNCHANGED <<clockVars, storeVars, minted, last, calls, handlers,
                 valid, clientATFetch, promises, fetches>>

\* The server answers a logout request
LogoutFulfilled(i) ==
  /\ logouts[i].state = "pending"
  /\ cookie' = AuthClient_logout_onFulfilled(cookie)
  /\ logouts' = [logouts EXCEPT ![i].state = "fulfilled"]
  /\ UNCHANGED <<clockVars, storeVars, minted, last, calls, handlers,
                 valid, clientATFetch, promises, fetches>>

\* A logout request fails
LogoutRejected(i) ==
  /\ logouts[i].state = "pending"
  /\ cookie' = AuthClient_logout_onRejected(cookie)
  /\ logouts' = [logouts EXCEPT ![i].state = "rejected"]
  /\ UNCHANGED <<clockVars, storeVars, minted, last, calls, handlers,
                 valid, clientATFetch, promises, fetches>>

\* A token stops decoding (it expires)
TokenExpires(accessToken) ==
  /\ accessToken \in valid
  /\ valid' = valid \ {accessToken}
  /\ UNCHANGED <<clockVars, storeVars, minted, last, calls, handlers,
                 cookie, clientATFetch, promises, fetches, logouts>>

NextClient ==
  \/ FetchClientToken
  \/ \E p \in DOMAIN promises, t \in ClientTokens \cup {""} : RequestFulfilled(p, t)
  \/ \E p \in DOMAIN promises : RequestRejected(p)
  \/ \E t \in ClientTokens : SetAccessToken(t)
  \/ RemoveAccessToken
  \/ \E t \in ClientTokens : TokenExpires(t)

SpecClient == Init /\ [][NextClient]_vars

\* The client's logout calls, with the application setting and removing the
\* cookie in between
NextClientLogout ==
  \/ \E hasWindow \in BOOLEAN : Logout(hasWindow)
  \/ \E i \in DOMAIN logouts : LogoutFulfilled(i)
  \/ \E i \in DOMAIN logouts : LogoutRejected(i)
  \/ \E t \in ClientTokens : SetAccessToken(t)
  \/ RemoveAccessToken

SpecClientLogout == Init /\ [][NextClientLogout]_vars

Next ==
  \/ \E d \in TickSteps : Tick(d)
  \/ NextAccess \/ NextStore \/ NextTokens \/ NextExpress \/ NextLogout \/ NextSession
  \/ NextScope
  \/ NextClient \/ NextClientLogout

Spec == Init /\ [][Next]_vars

\* ============================================================ claims
\* What the claims call a present Bearer header, a present cookie, a token
\* inside its window and an expired token.
BearerPresent(source) ==
  source.authorization.scheme = "Bearer" /\ ~Falsy(source.authorization.cred)
CookiePresent(source) == ~Falsy(source.cookie)
InWindow(token, t) == t.s < token.claims.exp + ClockTolerance
ExpiredAt(token, t) ==
  /\ token.kind = "jwt"
  /\ token.sig = Hmac(ACCESS_TOKEN_SECRET, token.alg, token.claims)
  /\ t.s >= token.claims.exp + ClockTolerance

HeaderThenCookie(source, ret) ==
  /\ BearerPresent(source) => ret = source.authorization.cred
  /\ (source.authorization = NoHeader /\ CookiePresent(source)) => ret = source.cookie
  /\ (source.authorization = NoHeader /\ ~CookiePresent(source)) => ret = Null

\* C3 (as stated): every getAccessToken, the orchestrator's and the Express
\* adapter's override of it, returns the Bearer header's token when the header
\* is present, the access-token cookie when only the cookie is present, and
\* null when neither is.
C3_HeaderThenCookieEverywhere ==
  last.op \in {"getAccessToken", "ExpressAuth.getAccessToken"}
    => HeaderThenCookie(last.source, last.ret)

\* C3 (amended): the orchestrator's getAccessToken returns the Bearer header's
\* token when the header is present, the cookie when only the cookie is present
\* and null when neither is; ExpressAuth.getAccessToken returns the header's
\* token when the header is present and null when it is absent, whether or not
\* an access-token cookie is present.
C3_HeaderPriority ==
  /\ last.op = "getAccessToken" => HeaderThenCookie(last.source, last.ret)
  /\ last.op = "ExpressAuth.getAccessToken" =>
       /\ BearerPresent(last.source) => last.ret = last.source.authorization.cred
       /\ last.source.authorization = NoHeader => last.ret = Null

C3_Witness ==
  /\ last.op = "ExpressAuth.getAccessToken"
  /\ last.source.authorization = NoHeader
  /\ CookiePresent(last.source)
  /\ last.ret = Null

\* C4: verifying an access token that createAccessToken returned, while the
\* token is inside its expiry window, returns the payload that the same
\* createAccessToken call returned.
C4_CreateThenVerify ==
  \A m \in minted :
    (last.op = "verify" /\ last.token = m.accessToken /\ InWindow(last.token, last.at))
      => last.ret = Ok(m.payload)

C4_Witness ==
  \E m \in minted :
    /\ last.op = "verify" /\ last.token = m.accessToken
    /\ last.at.s >= m.accessToken.claims.exp
    /\ last.ret = Ok(m.payload)
    /\ m.payload.scope = "a:r:w"

\* C5: decode returns null for an empty token and for every token on which
\* verify fails, and the payload verify returns for every token on which verify
\* succeeds; verify fails for an expired token.
C5_DecodeNeverFails ==
  /\ last.op = "decode" =>
       LET v == AuthServer_verify(last.token, last.at)
       IN  /\ Falsy(last.token) => last.ret = Null
           /\ ~v.ok => last.ret = Null
           /\ v.ok => last.ret = v.val
           /\ ExpiredAt(last.token, last.at) => last.ret = Null
  /\ last.op = "verify" =>
       /\ ExpiredAt(last.token, last.at) => ~last.ret.ok
       /\ last.token.kind # "jwt" => ~last.ret.ok

C5_Witness ==
  /\ last.op = "decode"
  /\ last.token = ExpiredToken
  /\ last.ret = Null

\* C6: ExpressAuth.authorize calls next exactly once for every request, with
\* req.user the token's payload when the Authorization header carries a valid
\* access token, and null when no access token is available or the access token
\* is expired.
C6_AuthorizeNeverFails ==
  last.op = "authorize" =>
    LET token == last.req.authorization.cred
    IN  /\ last.ret.nextCalls = 1
        /\ ~last.ret.threw
        /\ (last.req.authorization = NoHeader \/ Falsy(token)) => last.ret.user = Null
        /\ (~Falsy(token) /\ ExpiredAt(token, last.at)) => last.ret.user = Null
        /\ (~Falsy(token) /\ AuthServer_verify(token, last.at).ok)
             => last.ret.user = AuthServer_verify(token, last.at).val

CountOf(seq, x) == Cardinality({i \in DOMAIN seq : seq[i] = x})
ResetOnceBeforeLookup(trace) ==
  /\ CountOf(trace, "reset") = 1
  /\ \E i, j \in DOMAIN trace : trace[i] = "reset" /\ trace[j] = "get" /\ i < j

C2_ResetOnce ==
  \A h \in Handlers :
    (handlers[h].pc # "idle" /\ handlers[h].kind = "refresh") =>
      IF handlers[h].refreshToken = ""
      THEN handlers[h].res = <<>>
      ELSE /\ ResetOnceBeforeLookup(handlers[h].log)
           /\ Len(handlers[h].res) = 1
           /\ handlers[h].res[1].name = REFRESH_TOKEN_COOKIE
           /\ handlers[h].res[1].value = handlers[h].refreshToken

C2_Witness ==
  \E h \in Handlers :
    /\ handlers[h].pc = "done" /\ handlers[h].kind = "refresh"
    /\ handlers[h].refreshToken # ""
    /\ handlers[h].payload = UndefinedRec
    /\ Len(handlers[h].res) = 1

\* C7: a createTokens call whose refresh-token creation failed fails as a whole
\* and returns no access token, also when the access token had been signed
\* first; a createTokens call that returns an access token returns it with a
\* refresh token that the store has held.
C7_AllOrNothing ==
  \A c \in Callers :
    calls[c].pc = "done" =>
      /\ ~calls[c].rt.ok =>
           /\ ~calls[c].result.ok
           /\ "accessToken" \notin DOMAIN calls[c].result
      /\ calls[c].result.ok =>
           /\ calls[c].rt.ok
           /\ "accessToken" \in DOMAIN calls[c].result
           /\ calls[c].result.refreshToken \in persisted

C7_Witness ==
  \E c \in Callers :
    /\ calls[c].pc = "done"
    /\ calls[c].order = "access-first"
    /\ ~calls[c].rt.ok
    /\ ~calls[c].result.ok

\* C8: in every result of createTokens the returned payload is the payload
\* embedded in the returned access token, and verifying that token inside its
\* window returns it, in either order of the two creations and with other
\* createTokens calls interleaved.
C8_PayloadIsEmbedded ==
  \A c \in Callers :
    (calls[c].pc = "done" /\ calls[c].result.ok) =>
      /\ AuthPayload_parse(calls[c].result.accessToken.claims) = calls[c].result.payload
      /\ InWindow(calls[c].result.accessToken, now) =>
           AuthServer_verify(calls[c].result.accessToken, now) = Ok(calls[c].result.payload)

C8_Witness ==
  \E c, d \in Callers :
    /\ c # d
    /\ calls[c].pc = "done" /\ calls[c].result.ok
    /\ calls[c].order = "refresh-first"
    /\ calls[d].pc = "done" /\ calls[d].result.ok
    /\ calls[d].order = "access-first"
    /\ calls[c].result.payload # calls[d].result.payload
    /\ InWindow(calls[c].result.accessToken, now)

\* C9: at most one createAccessToken request of the client is in flight at any
\* time, and a fetchClientToken call made with an invalid token in the cookie
\* while a request is in flight returns that request's promise (it starts no
\* request of its own and resolves with the same access token).
C9_OneRequestInFlight ==
  /\ Cardinality(PendingRequests) <= 1
  /\ \A k \in DOMAIN fetches :
       (fetches[k].inFlight # {}
        /\ fetches[k].cookie # ""
        /\ ~fetches[k].decodes) =>
         /\ fetches[k].ret.kind = "promise"
         /\ fetches[k].ret.pid \in fetches[k].inFlight

C9_Witness ==
  \E j, k \in DOMAIN fetches :
    /\ j < k
    /\ fetches[j].ret.kind = "promise" /\ fetches[k].ret.kind = "promise"
    /\ fetches[j].ret.pid = fetches[k].ret.pid
    /\ fetches[k].inFlight = {fetches[k].ret.pid}
    /\ promises[fetches[k].ret.pid].state = "fulfilled"
    /\ promises[fetches[k].ret.pid].value # ""

\* C10: the client's slot clientATFetch never holds a request that has settled,
\* fulfilled or rejected, so a fetchClientToken call after a failed refresh is
\* never handed the failed request.
C10_SlotClearedWhenSettled ==
  /\ clientATFetch # 0 => promises[clientATFetch].state = "pending"
  /\ \A k \in DOMAIN fetches :
       fetches[k].ret.kind = "promise" =>
         (fetches[k].ret.pid \in fetches[k].inFlight
          \/ fetches[k].ret.pid > fetches[k].started)

\* What the store held for an identifier when it was first issued
FirstIssue(id) ==
  issues[CHOOSE i \in DOMAIN issues :
           issues[i].id = id /\ \A j \in 1 .. i - 1 : issues[j].id # id].record
Issued(id) == \E i \in DOMAIN issues : issues[i].id = id

\* C11: once removeRefreshToken(id) has returned true, the store never again
\* holds a record for id and every later getPayload(id) returns undefined;
\* before its removal, every getPayload(id) of an issued id returns the record
\* that was stored when id was issued.
C11_RemovedIsTerminal ==
  /\ \A id \in removed : id \notin DOMAIN refreshTokens
  /\ last.op = "getPayload" =>
       /\ last.id \in removed => last.ret = UndefinedRec
       /\ (Issued(last.id) /\ last.id \notin removed) => last.ret = FirstIssue(last.id)

\* C12: any two createRefreshToken calls, calls at the same clock reading
\* included, return distinct identifiers, and a record in the store is the one
\* its identifier was issued with (no creation overwrites or changes it).
C12_UniqueIdentifiers ==
  /\ \A i, j \in DOMAIN issues : i # j => issues[i].id # issues[j].id
  /\ \A i \in DOMAIN issues :
       issues[i].id \in DOMAIN refreshTokens =>
         refreshTokens[issues[i].id] = issues[i].record

\* C13: verify succeeds for a token only if its signature matches and the
\* time of the call is before its expiry plus the clock tolerance; a token for
\* which verify has failed (expired, tampered with or malformed) fails verify
\* at every later time.
SignatureMatches(token) ==
  /\ token.kind = "jwt"
  /\ token.sig = Hmac(ACCESS_TOKEN_SECRET, token.alg, token.claims)

C13_ValidOnlyInWindow ==
  last.op = "verify" =>
    /\ last.ret.ok => (SignatureMatches(last.token) /\ InWindow(last.token, last.at))
    /\ ~last.ret.ok => ~AuthServer_verify(last.token, now).ok

C13_Witness ==
  /\ last.op = "verify"
  /\ last.token \in MintedTokens
  /\ last.ret = Err("TokenExpiredError")
  /\ now.s > last.at.s

\* Whether the instant e lies before the second iat (a token's issue time)
Passed(e, iat) == e.s < iat

\* A refreshAccessToken call that has returned
Refreshed(h) == handlers[h].pc = "done" /\ handlers[h].kind = "refresh"
Issues(h) == Refreshed(h) /\ "accessToken" \in DOMAIN handlers[h].result

\* C14: refreshAccessToken issues an access token only when its lookup found a
\* record for the request's refresh token and that record's expireAt has not
\* passed when the token is issued.
C14_OnlyFromUnexpiredRecord ==
  \A h \in Handlers :
    Issues(h) =>
      /\ handlers[h].found
      /\ ~Passed(handlers[h].payload.expireAt, handlers[h].result.accessToken.claims.iat)

\* C15: a refreshAccessToken call whose request carries no refresh-token
\* cookie, or an identifier without a record in the store, returns undefined:
\* no access token, and a return, not a rejection.
C15_NoTokenWithoutRecord ==
  \A h \in Handlers :
    (Refreshed(h) /\ (handlers[h].refreshToken = "" \/ ~handlers[h].found)) =>
      handlers[h].result = UndefinedRec

C15_Witness ==
  \E h \in Handlers :
    /\ Refreshed(h)
    /\ handlers[h].refreshToken = "xxx"
    /\ refreshTokens # EmptyStore
    /\ handlers[h].result = UndefinedRec

\* C20: the access token that refreshAccessToken returns carries, as its
\* subject id, the subject (userId) of the refresh record it was minted from.
C20_SameSubject ==
  \A h \in Handlers :
    Issues(h) =>
      AuthPayload_parse(handlers[h].result.accessToken.claims).id
        = handlers[h].payload.userId

\* A logout call that has returned
LoggedOut(h) == handlers[h].pc = "done" /\ handlers[h].kind = "logout"

\* The cookie setRefreshToken(res, '') puts on the response
ClearedCookie ==
  [name |-> REFRESH_TOKEN_COOKIE, value |-> "", httpOnly |-> TRUE, path |-> "/",
   maxAge |-> Undefined, expires |-> "new Date(1)"]

\* C16: when a logout whose request carries a refresh token has returned, the
\* store holds no record for that refresh token, the response carries the
\* refresh-token cookie with the empty value, no maxAge and expires at the
\* epoch, and the result is {done: true}; the cookie is set after the removal,
\* and not while the handler still awaits it.
C16_LogoutRemovesThenClears ==
  \A h \in Handlers :
    /\ (LoggedOut(h) /\ handlers[h].refreshToken # "") =>
         /\ ~handlers[h].storeHas
         /\ handlers[h].res = <<ClearedCookie>>
         /\ handlers[h].result = [done |-> TRUE]
         /\ handlers[h].log = <<"remove", "setRefreshToken">>
    /\ (handlers[h].pc = "awaiting" /\ handlers[h].kind = "logout") =>
         handlers[h].res = <<>>

\* C17: a logout whose request carries no refresh-token cookie returns
\* {done: false}, attempts no removal, leaves the store as it is and sets no
\* cookie on the response.
C17_LogoutWithoutCookie ==
  [][\A h \in Handlers, req \in RefreshCookieInputs :
       (LogoutStart(h, req) /\ req.signedCookie = "" /\ req.cookie = "") =>
         /\ handlers'[h].pc = "done"
         /\ handlers'[h].result = [done |-> FALSE]
         /\ handlers'[h].log = <<>>
         /\ handlers'[h].res = <<>>
         /\ refreshTokens' = refreshTokens]_vars

C17_Witness ==
  \E h \in Handlers :
    /\ LoggedOut(h)
    /\ handlers[h].refreshToken = ""
    /\ handlers[h].result = [done |-> FALSE]
    /\ refreshTokens # EmptyStore

\* C18: under every registry, decoding the encoding of a set of grants on
\* registered resources gives that set back; the empty set encodes to the empty
\* string, and admin:read with admin:write under {admin: 'a'} to 'a:r:w'.
C18_ScopeRoundTrip ==
  /\ last.op = "scope.decode" =>
       \A grants \in ScopeSets(last.registry) :
         last.scope = AuthScope_encode(last.registry, grants).val
           => last.ret = Ok(grants)
  /\ last.op = "scope.encode" =>
       /\ last.grants \in ScopeSets(last.registry) => last.ret.ok
       /\ last.grants = {} => (last.ret.ok /\ Str(last.ret.val) = "")
       /\ (last.registry = Registry
           /\ last.grants = {Grant("admin", "read"), Grant("admin", "write")})
            => (last.ret.ok /\ Str(last.ret.val) = "a:r:w")

C18_Witness ==
  /\ last.op = "scope.decode"
  /\ Str(last.scope) = "a:r:w,u:w"
  /\ last.ret = Ok({Grant("admin", "read"), Grant("admin", "write"), Grant("user", "write")})

LastCookie(res) == res[Len(res)].value

\* A logout that has returned after removing the record of refresh token id
LoggedOutOf(g, id) ==
  LoggedOut(g) /\ handlers[g].removed /\ handlers[g].refreshToken = id

\* C21: with a logout and a refreshAccessToken for the same refresh token
\* interleaved in any way, refreshAccessToken returns an access token only
\* while the store holds the record, and the response of whichever of the two
\* handlers returns last does not set the refresh-token cookie to the removed
\* identifier.
C21_LogoutRefreshInterleaving ==
  [][\A h \in Handlers :
       /\ RefreshResume(h) =>
            /\ "accessToken" \in DOMAIN handlers'[h].result
                 => handlers[h].refreshToken \in DOMAIN refreshTokens
            /\ (\E g \in Handlers : LoggedOutOf(g, handlers[h].refreshToken))
                 => LastCookie(handlers'[h].res) # handlers[h].refreshToken
       /\ (LogoutResume(h) /\ handlers[h].removed
           /\ \E g \in Handlers :
                Refreshed(g) /\ handlers[g].refreshToken = handlers[h].refreshToken)
            => LastCookie(handlers'[h].res) # handlers[h].refreshToken]_vars

\* C22: AuthClient.logout leaves the access-token cookie as it is when it is
\* called, sends a logout request only when there is a window, removes the
\* cookie when that request has succeeded and leaves it unchanged when the
\* request fails.
C22_CookieRemovedAfterLogout ==
  [][/\ \A hasWindow \in BOOLEAN :
          Logout(hasWindow) =>
            /\ cookie' = cookie
            /\ logouts'[Len(logouts')].state
                 = (IF hasWindow THEN "pending" ELSE "no request")
     /\ \A i \in DOMAIN logouts :
          /\ LogoutRejected(i) => cookie' = cookie
          /\ LogoutFulfilled(i) => cookie' = ""]_vars

C22_Witness ==
  \E i, j \in DOMAIN logouts :
    /\ logouts[i].state = "rejected"
    /\ logouts[j].state = "no request"
    /\ cookie # ""
====
